---- MODULE Spec2Model ----
(***************************************************************************)
(* Continuous fee minting simulation (cfm.py).                             *)
(*                                                                         *)
(* Representation.                                                         *)
(*  - Times are whole seconds.  random.random() is sampled on a grid: the  *)
(*    jitter r * mint_period_noise takes the values                        *)
(*    floor(j * noise / RDen), j in -RDen .. RDen-1, all of which lie in   *)
(*    [-noise, noise), the range of (random()*2 - 1) * noise.              *)
(*  - A fraction is a pair <<numerator, denominator>>.                     *)
(*  - USD amounts are held in units of 1/10000 USD (one stroop of an XLM   *)
(*    priced at 1 USD), so this_tx_fee = 0.0001 * 0.45 * 100 USD = 45.     *)
(*  - fund_shares only ever changes by fund_shares *= inflation_rate ^     *)
(*    (time_delta / mgmt_fee_period) (lines 143-145, 165), so it is held   *)
(*    exactly by its exponent:                                             *)
(*       fund_shares = init_shares * inflation_rate ^ (fund_shares_exp / ExpDen)  *)
(*    with ExpDen = mgmt_fee_period * (denominator of clock_drift), and    *)
(*    mint is held by the exponent slice it multiplies fund_shares by:     *)
(*       mint = fund_shares * (inflation_rate ^ (mint_exp / ExpDen) - 1).  *)
(*    time_delta is held in units of 1/(denominator of clock_drift) s.     *)
(***************************************************************************)
EXTENDS Integers, Sequences, FiniteSets, TLC

\* ------------------------------------------------------------ bounds
\* grid of the random draw: r * noise = floor(j * noise / RDen)
RDen == 2
\* cap on loop iterations (only a run whose waits can be 0 reaches it)
MaxTicks == 34

\* ------------------------------------------------------------ constants
sim_periods == 10
xlm_price == 4500
stroop_per_tx == 100
stroop_per_xlm_inv == 10000
SecondsPerDay == 60 * 60 * 24

\* ------------------------------------------------------------ configurations
Cfg(fee, period, mint_, noise, drift, tolerance) ==
    [fee |-> fee, period |-> period, mint |-> mint_, noise |-> noise,
     drift |-> drift, tolerance |-> tolerance]

\* fee and drift are fractions, period is in days, mint and noise in seconds,
\* tolerance in 1/10000 USD per day
Configs ==
    { Cfg(<<1, 50>>, 1, 54000, 10800, <<0, 1>>, 1000000000),   \* no skips, no drift
      Cfg(<<1, 50>>, 1, 36000, 7200, <<0, 1>>, 0),             \* tolerance 0
      Cfg(<<1, 50>>, 1, 54000, 10800, <<0, 1>>, 60),           \* some ticks throttled
      Cfg(<<1, 2>>,  1, 54000, 10800, <<1, 4>>, 60),           \* fast clock
      Cfg(<<1, 50>>, 1, 54000, 10800, <<-2, 1>>, 1000000000),  \* clock running backwards
      Cfg(<<0, 1>>,  1, 54000, 10800, <<0, 1>>, 1000000000),   \* no fee
      Cfg(<<1, 10>>, 2, 108000, 21600, <<0, 1>>, 30),          \* two-day fee period
      Cfg(<<1, 50>>, 1, 864000, 864000, <<0, 1>>, 1000000000), \* noise = mint
      Cfg(<<1, 50>>, 1, 200000, 30000, <<0, 1>>, 1000000000),  \* waits longer than a fee period
      Cfg(<<1, 50>>, 1, 54000, 54001, <<0, 1>>, 1000000000),   \* noise > mint
      Cfg(<<3, 2>>,  1, 54000, 10800, <<0, 1>>, 1000000000),   \* fee out of range
      Cfg(<<1, 50>>, 0, 54000, 10800, <<0, 1>>, 1000000000),   \* period not positive
      Cfg(<<1, 1>>,  1, 54000, 10800, <<0, 1>>, 1000000000) }  \* fee = 1

\* ------------------------------------------------------------ state
VARIABLES
    args,             \* the parsed command line
    pc,               \* "loop" | "done" | "rejected" | "crashed"
    this_timestamp,   \* the clock
    last_timestamp,   \* the clock of the last committed tick
    fund_shares_exp,  \* fund_shares, by its exponent
    tx_fees,
    num_mints,
    num_skips,
    mint_exp,         \* mint, by its exponent slice
    new_period,
    this_period,
    time_delta,
    skipped,
    summary,          \* the last end-of-period summary printed
    bootstrap,        \* the last tick took the branch "if not last_timestamp"
    ticks,            \* history: loop iterations executed
    any_skip,         \* history: some tick was skipped
    period_delta,     \* history: time_delta's of the ticks since the last summary
    boundary_log,     \* history: clocks of the post-bootstrap new_period ticks
    earnings_terms,   \* earnings, by the number of nonzero terms mint * fund_price added
    commits,          \* history: post-bootstrap ticks that took the "mint ok" branch
    applied_raw,      \* history: this_timestamp - last_timestamp summed over the applied mints
    boot_clock,       \* history: the clock of the bootstrap tick
    period_ticks,     \* history: post-bootstrap ticks since the last summary
    twin              \* the same run, on the same draws, under another clock_drift

vars == <<args, pc, this_timestamp, last_timestamp, fund_shares_exp, tx_fees,
          num_mints, num_skips, mint_exp, new_period, this_period, time_delta,
          skipped, summary, bootstrap, ticks, any_skip, period_delta,
          boundary_log, earnings_terms, commits, applied_raw, boot_clock,
          period_ticks, twin>>

\* ------------------------------------------------------------ startup
percentage(x) == ~(x[1] < 0 \/ x[1] > x[2])

positive_int(x) == ~(x <= 0)

\* the argparse type checks of the options
ParseOk(a) ==
    /\ percentage(a.fee)
    /\ positive_int(a.period)
    /\ positive_int(a.mint)
    /\ positive_int(a.noise)

\* inflation_rate = 1.0 / (1.0 - mgmt_fee) raises ZeroDivisionError when mgmt_fee = 1
InflationDefined(a) == a.fee[1] # a.fee[2]

NoiseCheckPasses(a) == ~(a.noise > a.mint)

Startup(a) ==
    IF ~ParseOk(a) THEN "rejected"
    ELSE IF ~InflationDefined(a) THEN "crashed"
    ELSE IF ~NoiseCheckPasses(a) THEN "rejected"
    ELSE "loop"

mgmt_fee_period == args.period * SecondsPerDay

this_tx_fee == (xlm_price * stroop_per_tx) \div stroop_per_xlm_inv

NoSummary == [printed |-> FALSE]

\* another value of --drift for the same command line
TwinDrift(a) == IF a.drift[1] = 0 THEN <<1, 4>> ELSE <<0, 1>>

TwinInit(a) ==
    [drift |-> TwinDrift(a), this_timestamp |-> 0, last_timestamp |-> 0,
     tx_fees |-> 0, num_mints |-> 0, num_skips |-> 0, new_period |-> FALSE,
     skipped |-> FALSE, time_delta |-> 0, fund_shares_exp |-> 0]

Init ==
    /\ args \in Configs
    /\ pc = Startup(args)
    /\ this_timestamp = 0
    /\ last_timestamp = 0
    /\ fund_shares_exp = 0
    /\ tx_fees = 0
    /\ num_mints = 0
    /\ num_skips = 0
    /\ mint_exp = 0
    /\ new_period = FALSE
    /\ this_period = 0
    /\ time_delta = 0
    /\ skipped = FALSE
    /\ summary = NoSummary
    /\ bootstrap = FALSE
    /\ ticks = 0
    /\ any_skip = FALSE
    /\ period_delta = 0
    /\ boundary_log = <<>>
    /\ earnings_terms = 0
    /\ commits = 0
    /\ applied_raw = 0
    /\ boot_clock = 0
    /\ period_ticks = 0
    /\ twin = TwinInit(args)

\* ------------------------------------------------------------ the loop
\* mutant: the exit test is not strict
LoopConditionNotStrict == ~(this_timestamp >= mgmt_fee_period * sim_periods)

LoopCondition == ~(this_timestamp > mgmt_fee_period * sim_periods)

\* wait = mint_period + r * mint_period_noise
Waits == { args.mint + ((j * args.noise) \div RDen) : j \in (-RDen)..(RDen - 1) }

\* mutant: the overshoot past the boundary is kept
SnapClockKeepsOvershoot(proposed, this_p, last_p) == proposed

\* mutant: the clock is forced to the start of the period it was in
SnapClockToPeriodStart(proposed, this_p, last_p) ==
    IF this_p > last_p THEN last_p * mgmt_fee_period ELSE proposed

\* the clock after the new-period check
SnapClock(proposed, this_p, last_p) ==
    IF this_p > last_p THEN this_p * mgmt_fee_period ELSE proposed

\* time_delta = (this_timestamp - last_timestamp) * (1.0 + clock_drift), in units
\* of 1/(denominator of the drift) s
TimeDeltaAt(drift, clock, last) == (clock - last) * (drift[2] + drift[1])

TimeDelta(clock, last) == TimeDeltaAt(args.drift, clock, last)

\* mutant: the throttle's elapsed time is taken from the drifted clock
SimClockDrifted(drift, clock) == (clock * (drift[2] + drift[1])) \div drift[2]

\* the clock behind sim_days = float(this_timestamp) / (60 * 60 * 24)
SimClock(drift, clock) == clock

\* mutant: the rate is taken over the fees already paid, without this tick's fee
ThrottledIgnoringThisFee(fees, clock) ==
    LET x == fees * SecondsPerDay IN
    IF args.tolerance <= 0 THEN x > args.tolerance
    ELSE clock <= (x - 1) \div args.tolerance

\* usd_per_day > fee_tolerance, with
\* usd_per_day = (tx_fees + this_tx_fee) / (this_timestamp / 86400); the clock is
\* positive here, so this is (tx_fees + this_tx_fee) * 86400 > fee_tolerance * clock,
\* decided without the product on the right
Throttled(fees, clock) ==
    LET x == (fees + this_tx_fee) * SecondsPerDay IN
    IF args.tolerance <= 0 THEN x > args.tolerance
    ELSE clock <= (x - 1) \div args.tolerance

\* mutant: the fee is charged before the throttle decides
ChargeFeeBeforeThrottle(boot, skip, fees) ==
    IF boot THEN fees ELSE fees + this_tx_fee

\* tx_fees after the tick: "tx_fees += this_tx_fee" in the "mint ok" branch
ChargeFee(boot, skip, fees) ==
    IF boot \/ skip THEN fees ELSE fees + this_tx_fee

\* mutant: the mint is counted before the throttle decides
CountMintBeforeThrottle(boot, skip, n) == IF boot THEN n ELSE n + 1

\* num_mints before the summary: "num_mints += 1" in the "mint ok" branch
CountMint(boot, skip, n) == IF boot \/ skip THEN n ELSE n + 1

\* num_skips before the summary: "num_skips += 1" in the skip branch
CountSkip(skip, n) == IF skip THEN n + 1 ELSE n

\* "if not skipped or new_period": last_timestamp is advanced
Commits(skip, newp) == ~skip \/ newp

\* mutant: the bootstrap branch is taken on the clock, which has already advanced
IsBootstrapByClock(last, clock) == clock = 0

\* "if not last_timestamp": the bootstrap branch
IsBootstrap(last, clock) == last = 0

\* the sign of mint = fund_shares * (inflation_rate ^ slice - 1): fund_shares is
\* positive and inflation_rate >= 1, with inflation_rate = 1 exactly when mgmt_fee = 0
MintSign(slice) ==
    IF args.fee[1] = 0 \/ slice = 0 THEN 0 ELSE IF slice > 0 THEN 1 ELSE -1

\* "earnings += (mint * fund_price)" adds 0: fund_price is positive and finite, so
\* the term is 0 exactly when mint is
EarningsTermIsZero(slice) == MintSign(slice) = 0

\* the loop body on the twin: the lines of Tick that decide the clock, the
\* flags, the fees and the counters, with the twin's drift in time_delta
TwinTick(t, wait) ==
    LET proposed == t.this_timestamp + wait
        this_p == proposed \div mgmt_fee_period
        last_p == t.last_timestamp \div mgmt_fee_period
        clock == SnapClock(proposed, this_p, last_p)
        delta == TimeDeltaAt(t.drift, clock, t.last_timestamp)
        boot == IsBootstrap(t.last_timestamp, clock)
        newp == (this_p > last_p) \/ boot
        skip == ~boot /\ Throttled(t.tx_fees, SimClock(t.drift, clock))
        mints == CountMint(boot, skip, t.num_mints)
        skips == CountSkip(skip, t.num_skips)
        m == IF boot \/ skip THEN 0 ELSE delta
    IN  [drift |-> t.drift, this_timestamp |-> clock,
         last_timestamp |-> IF Commits(skip, newp) THEN clock ELSE t.last_timestamp,
         tx_fees |-> ChargeFee(boot, skip, t.tx_fees),
         num_mints |-> IF newp THEN 0 ELSE mints,
         num_skips |-> IF newp THEN 0 ELSE skips,
         new_period |-> newp, skipped |-> skip, time_delta |-> delta,
         fund_shares_exp |-> t.fund_shares_exp + m]

Tick(wait) ==
    LET proposed == this_timestamp + wait
        this_p == proposed \div mgmt_fee_period
        last_p == last_timestamp \div mgmt_fee_period
        clock == SnapClock(proposed, this_p, last_p)
        delta == TimeDelta(clock, last_timestamp)
        boot == IsBootstrap(last_timestamp, clock)
        newp == (this_p > last_p) \/ boot
        skip == ~boot /\ Throttled(tx_fees, SimClock(args.drift, clock))
        fees == ChargeFee(boot, skip, tx_fees)
        mints == CountMint(boot, skip, num_mints)
        skips == CountSkip(skip, num_skips)
        m == IF boot THEN mint_exp ELSE IF skip THEN 0 ELSE delta
        pdelta == IF boot THEN period_delta ELSE period_delta + delta
        pticks == IF boot THEN period_ticks ELSE period_ticks + 1
    IN
    /\ pc = "loop"
    /\ LoopCondition
    /\ ticks < MaxTicks
    /\ this_timestamp' = clock
    /\ this_period' = this_p
    /\ new_period' = newp
    /\ time_delta' = delta
    /\ skipped' = skip
    /\ bootstrap' = boot
    /\ tx_fees' = fees
    /\ mint_exp' = m
    /\ fund_shares_exp' = fund_shares_exp + m
    /\ earnings_terms' = IF EarningsTermIsZero(m) THEN earnings_terms ELSE earnings_terms + 1
    /\ summary' = IF newp
                  THEN [printed |-> TRUE, display_time |-> IF boot THEN last_timestamp ELSE clock,
                        num_mints |-> mints, num_skips |-> skips, period |-> this_p,
                        fund_shares_exp |-> fund_shares_exp + m, tx_fees |-> fees,
                        period_delta |-> pdelta, period_ticks |-> pticks]
                  ELSE summary
    /\ num_mints' = IF newp THEN 0 ELSE mints
    /\ num_skips' = IF newp THEN 0 ELSE skips
    /\ last_timestamp' = IF Commits(skip, newp) THEN clock ELSE last_timestamp
    /\ ticks' = ticks + 1
    /\ any_skip' = (any_skip \/ skip)
    /\ period_delta' = IF newp THEN 0 ELSE pdelta
    /\ boundary_log' = IF newp /\ ~boot THEN Append(boundary_log, clock) ELSE boundary_log
    /\ commits' = IF boot \/ skip THEN commits ELSE commits + 1
    /\ applied_raw' = IF boot \/ skip THEN applied_raw
                      ELSE applied_raw + (clock - last_timestamp)
    /\ boot_clock' = IF boot THEN clock ELSE boot_clock
    /\ period_ticks' = IF newp THEN 0 ELSE pticks
    /\ twin' = TwinTick(twin, wait)
    /\ UNCHANGED <<args, pc>>

Step == \E wait \in Waits : Tick(wait)

Exit ==
    /\ pc = "loop"
    /\ ~LoopCondition
    /\ pc' = "done"
    /\ UNCHANGED <<args, this_timestamp, last_timestamp, fund_shares_exp, tx_fees,
                   num_mints, num_skips, mint_exp, new_period, this_period,
                   time_delta, skipped, summary, bootstrap, ticks, any_skip,
                   period_delta, boundary_log, earnings_terms, commits,
                   applied_raw, boot_clock, period_ticks, twin>>

Next == Step \/ Exit

Spec == Init /\ [][Next]_vars

\* ------------------------------------------------------------ derived values
\* the denominator of the exponents fund_shares_exp and mint_exp
ExpDen == mgmt_fee_period * args.drift[2]

Abs(x) == IF x < 0 THEN -x ELSE x

\* a tick has run, it was not the bootstrap tick, and it had new_period = true
BoundaryTick == ticks > 0 /\ ~bootstrap /\ new_period

\* the configuration was accepted and the loop entered
Started == pc \in {"loop", "done"}

\* the step is one loop iteration
TickStep == ticks' = ticks + 1

\* every wait is shorter than one fee period
WaitsWithinPeriod == args.mint + args.noise <= mgmt_fee_period

\* the clocks in boundary_log that equal the k-th boundary
BoundaryTicksAt(k) ==
    { i \in DOMAIN boundary_log : boundary_log[i] = k * mgmt_fee_period }

\* customer_value = init_customer_value * (1 - mgmt_fee) ^ (e / ExpDen) differs from
\* ideal = init_customer_value * (1 - mgmt_fee) ^ k by more than 1e-6 of ideal.
\* With x = |e / ExpDen - k| the ratio of the two is inflation_rate ^ x, and
\* ln(inflation_rate) >= mgmt_fee, so x * mgmt_fee > 1 / (10^6 - 1) puts the
\* relative error above 1e-6 on either side.
ErrExceedsTolerance(e, k) ==
    LET n == args.fee[1]
        d == args.fee[2]
        m == Abs(e - k * ExpDen)
    IN  n > 0 /\ m * n > (ExpDen * d) \div 999999

\* the growth factors inflation_rate ^ (time_delta / mgmt_fee_period) of ticks whose
\* time deltas sum to deltas multiply to inflation_rate
PeriodProductIsInflationRate(deltas) == args.fee[1] = 0 \/ deltas = ExpDen

\* ------------------------------------------------------------ C1
\* C1: every post-bootstrap tick with new_period = true is committed whatever the
\* throttle says: its candidate mint is applied to fund_shares, the per-event fee
\* is charged, the mint counter and not the skip counter is incremented, and
\* last_timestamp is advanced to the snapped clock.
C1_BoundaryTickCommitted ==
    [][ (TickStep /\ ~bootstrap' /\ new_period')
        => /\ ~skipped'
           /\ mint_exp' = time_delta'
           /\ fund_shares_exp' = fund_shares_exp + time_delta'
           /\ tx_fees' = tx_fees + this_tx_fee
           /\ summary'.num_mints = num_mints + 1
           /\ summary'.num_skips = num_skips
           /\ last_timestamp' = this_timestamp' ]_vars

\* ------------------------------------------------------------ C2
\* C2: with clock_drift = 0, in every fee period in which no tick is skipped (the
\* first one included) the time deltas fed to the mint formula, the boundary
\* tick's included, sum to exactly mgmt_fee_period, so the growth factors
\* multiply to inflation_rate.
C2_PeriodDeltasSumToPeriod ==
    (BoundaryTick /\ args.drift[1] = 0 /\ WaitsWithinPeriod /\ summary.num_skips = 0)
        => PeriodProductIsInflationRate(summary.period_delta)

\* ------------------------------------------------------------ C3
\* C3: with clock_drift = 0 and no tick ever skipped, at the boundary tick ending
\* fee period k the customer's value is init_customer_value * (1 - mgmt_fee)^k
\* within 1e-6 relative error.
C3_DilutionTarget ==
    (BoundaryTick /\ args.drift[1] = 0 /\ ~any_skip /\ this_period \in 1..sim_periods)
        => ~ErrExceedsTolerance(fund_shares_exp, this_period)

\* ------------------------------------------------------------ C4
\* C4 as stated: every boundary k * mgmt_fee_period (k = 1..sim_periods) the clock
\* has reached has exactly one post-bootstrap new_period tick, at exactly that
\* clock.
C4_EveryBoundaryHasOneTick ==
    Started =>
        \A k \in 1..sim_periods :
            k * mgmt_fee_period <= this_timestamp
                => Cardinality(BoundaryTicksAt(k)) = 1

\* C4 amended: every post-bootstrap new_period tick is at this_period *
\* mgmt_fee_period, the last boundary its proposed clock reached; no boundary
\* gets two of them; once such a tick has run, the last boundary the clock has
\* reached is the one of the latest such tick; and when every wait is shorter
\* than a fee period every boundary reached has exactly one.
C4_BoundaryForcing ==
    /\ \A i \in DOMAIN boundary_log :
          /\ boundary_log[i] % mgmt_fee_period = 0
          /\ boundary_log[i] > 0
          /\ i > 1 => boundary_log[i - 1] < boundary_log[i]
    /\ BoundaryTick =>
          /\ this_timestamp = this_period * mgmt_fee_period
          /\ boundary_log # <<>>
          /\ boundary_log[Len(boundary_log)] = this_timestamp
    /\ boundary_log # <<>> =>
          boundary_log[Len(boundary_log)]
              = (this_timestamp \div mgmt_fee_period) * mgmt_fee_period
    /\ WaitsWithinPeriod => C4_EveryBoundaryHasOneTick

C4_Witness ==
    /\ BoundaryTick
    /\ WaitsWithinPeriod
    /\ Len(boundary_log) = sim_periods
    /\ this_timestamp = sim_periods * mgmt_fee_period

\* ------------------------------------------------------------ C5
\* C5: the mint applied on every tick is >= 0, so fund_shares never decreases
\* and stays >= init_shares.
C5_MintNeverNegative ==
    [][ TickStep
        => /\ MintSign(mint_exp') >= 0
           /\ MintSign(fund_shares_exp' - fund_shares_exp) >= 0
           /\ MintSign(fund_shares_exp') >= 0 ]_vars

\* ------------------------------------------------------------ C6
\* C6: with fee_tolerance = 0 every post-bootstrap tick that is not a period
\* boundary is skipped: mint = 0, fund_shares and tx_fees unchanged, the skip
\* counter incremented; a tick that commits a mint is a boundary tick.
C6_ZeroToleranceSkips ==
    [][ (TickStep /\ args.tolerance = 0 /\ ~bootstrap')
        => /\ ~new_period' =>
                /\ skipped'
                /\ mint_exp' = 0
                /\ fund_shares_exp' = fund_shares_exp
                /\ tx_fees' = tx_fees
                /\ num_skips' = num_skips + 1
                /\ num_mints' = num_mints
           /\ ~skipped' => new_period' ]_vars

C6_Witness ==
    /\ args.tolerance = 0
    /\ ticks > 1
    /\ ~bootstrap
    /\ ~new_period
    /\ skipped
    /\ num_skips >= 1

\* ------------------------------------------------------------ C7
\* C7: the very first tick mints 0 shares, charges no fee, is not throttled or
\* counted as a skip, has new_period = true, and prints a summary with
\* num_mints = 0 in which fund_shares is init_shares (so the customer value is
\* init_customer_value).
C7_BootstrapTick ==
    ticks = 1 =>
        /\ bootstrap
        /\ mint_exp = 0
        /\ fund_shares_exp = 0
        /\ tx_fees = 0
        /\ ~skipped
        /\ num_skips = 0
        /\ new_period
        /\ summary.printed
        /\ summary.num_mints = 0
        /\ summary.num_skips = 0
        /\ summary.fund_shares_exp = 0
        /\ summary.display_time = 0

C7_Witness == ticks = 1 /\ this_timestamp > 0 /\ summary.printed

\* ------------------------------------------------------------ C8
\* C8: a configuration with noise >= mint is rejected at startup and no tick is
\* ever executed.
C8_NoiseNotBelowMintRejected ==
    (ParseOk(args) /\ InflationDefined(args) /\ args.noise >= args.mint)
        => (pc = "rejected" /\ ticks = 0)

\* ------------------------------------------------------------ C9
\* C9: for every configuration that passes validation the loop terminates: no
\* run is still inside the loop, with the exit test failing, after MaxTicks
\* iterations.
\* the cap MaxTicks is reached only by a run whose waits can be 0
C9_LoopTerminates_WhenNoiseBelowMint ==
    args.noise < args.mint => ~(pc = "loop" /\ LoopCondition /\ ticks >= MaxTicks)

C10_ClockMonotone ==
    [][ /\ this_timestamp' >= this_timestamp
        /\ last_timestamp' >= last_timestamp
        /\ last_timestamp' <= this_timestamp' ]_vars

C10_Witness ==
    /\ BoundaryTick
    /\ Len(boundary_log) >= 2
    /\ this_timestamp = this_period * mgmt_fee_period
    /\ last_timestamp = this_timestamp

\* ------------------------------------------------------------ C11
\* C11: tx_fees changes only on post-bootstrap ticks that are not skipped, by
\* exactly this_tx_fee each time, so it is this_tx_fee times the number of such
\* ticks; the bootstrap tick and every skipped tick leave it unchanged.
C11_FeesChargedPerCommit ==
    [][ /\ TickStep =>
            /\ (bootstrap' \/ skipped') => tx_fees' = tx_fees
            /\ (~bootstrap' /\ ~skipped') => tx_fees' = tx_fees + this_tx_fee
            /\ tx_fees' = this_tx_fee * commits'
        /\ ~TickStep => tx_fees' = tx_fees ]_vars

C11_Witness ==
    /\ commits >= 2
    /\ skipped
    /\ ~bootstrap
    /\ tx_fees = 2 * this_tx_fee

\* ------------------------------------------------------------ C12
\* C12: a tick the throttle skips leaves fund_shares, tx_fees, earnings and
\* last_timestamp unchanged, leaves the mint counter unchanged and adds exactly
\* one to the skip counter (the counters as printed when the tick is a summary).
C12_SkippedTickFrame ==
    [][ (TickStep /\ skipped')
        => /\ fund_shares_exp' = fund_shares_exp
           /\ tx_fees' = tx_fees
           /\ earnings_terms' = earnings_terms
           /\ last_timestamp' = last_timestamp
           /\ (IF new_period' THEN summary'.num_mints ELSE num_mints') = num_mints
           /\ (IF new_period' THEN summary'.num_skips ELSE num_skips') = num_skips + 1 ]_vars

\* ------------------------------------------------------------ C13
\* C13: after any ticks, the raw time deltas of the mints applied to fund_shares
\* sum to last_timestamp minus the clock of the bootstrap tick.
C13_NoTimeDropped ==
    (Started /\ last_timestamp > 0) => applied_raw = last_timestamp - boot_clock

\* ------------------------------------------------------------ C14
\* C14: the bootstrap branch is taken exactly when last_timestamp = 0, and on
\* every tick that reaches the throttle the clock that sim_days divides by is
\* strictly positive.
C14_ThrottleClockPositive ==
    [][ TickStep
        => /\ bootstrap' <=> (last_timestamp = 0)
           /\ ~bootstrap' => SimClock(args.drift, this_timestamp') > 0 ]_vars

C14_Witness ==
    /\ args.noise = args.mint
    /\ ~bootstrap
    /\ ticks > 1
    /\ this_timestamp = last_timestamp
    /\ time_delta = 0

\* ------------------------------------------------------------ C15
\* C15: a run that differs only in clock_drift, on the same draws, has the same
\* clock, last_timestamp, new_period flag, skip decision, tx_fees and per-period
\* counters after every tick.
C15_DriftOnlyInMint ==
    Started =>
        /\ twin.drift # args.drift
        /\ twin.this_timestamp = this_timestamp
        /\ twin.last_timestamp = last_timestamp
        /\ twin.new_period = new_period
        /\ twin.skipped = skipped
        /\ twin.tx_fees = tx_fees
        /\ twin.num_mints = num_mints
        /\ twin.num_skips = num_skips

C15_Witness ==
    /\ any_skip
    /\ commits >= 2
    /\ ~skipped
    /\ ~bootstrap
    /\ twin.time_delta * args.drift[2] # time_delta * twin.drift[2]
    /\ twin.fund_shares_exp * args.drift[2] # fund_shares_exp * twin.drift[2]

\* ------------------------------------------------------------ C16
\* C16: at every summary num_mints + num_skips is the number of post-bootstrap
\* ticks since the previous summary, the summary's own tick included, and both
\* counters are zero right after the summary.
C16_CountersPartitionTicks ==
    /\ num_mints + num_skips = period_ticks
    /\ (ticks > 0 /\ new_period) =>
          /\ summary.num_mints + summary.num_skips = summary.period_ticks
          /\ num_mints = 0
          /\ num_skips = 0

C16_Witness ==
    /\ BoundaryTick
    /\ summary.num_mints >= 1
    /\ summary.num_skips >= 1
    /\ summary.period_ticks = summary.num_mints + summary.num_skips
    /\ ticks > summary.period_ticks + 1

\* ------------------------------------------------------------ C17
\* C17: every mgmt_fee that percentage accepts, both ends included, gives a
\* defined inflation_rate, so an accepted command line never ends in an
\* arithmetic error.
C17_AcceptedFeeNeverCrashes == ParseOk(args) => pc # "crashed"

\* ------------------------------------------------------------ C18
\* C18: with fee_tolerance >= 0, after every tick
\* tx_fees <= fee_tolerance * (this_timestamp / 86400), i.e.
\* tx_fees * 86400 <= fee_tolerance * this_timestamp, decided without the
\* product on the right.
C18_FeeBudgetKept ==
    (Started /\ args.tolerance >= 0) =>
        LET x == tx_fees * SecondsPerDay IN
        IF args.tolerance = 0 THEN x = 0
        ELSE (x + args.tolerance - 1) \div args.tolerance <= this_timestamp

C18_Witness ==
    /\ args.tolerance > 0
    /\ any_skip
    /\ ~skipped
    /\ ~bootstrap
    /\ commits >= 2
    /\ Throttled(tx_fees, this_timestamp)

\* ------------------------------------------------------------ C19
\* the clock stands on the end of the last fee period and the boundary tick that
\* put it there has printed its summary
AfterFinalSummary ==
    /\ pc = "loop"
    /\ this_timestamp = mgmt_fee_period * sim_periods
    /\ boundary_log # <<>>
    /\ boundary_log[Len(boundary_log)] = this_timestamp

\* C19 as stated: after the boundary tick at mgmt_fee_period * sim_periods the
\* further tick with a positive wait is the last one, is not a boundary tick and
\* prints no summary.
C19_FinalTickNotABoundary ==
    [][ (TickStep /\ AfterFinalSummary /\ this_timestamp' > this_timestamp)
        => /\ ~LoopCondition'
           /\ ~new_period'
           /\ summary' = summary ]_vars

\* C19 amended: the loop never exits with the clock on mgmt_fee_period *
\* sim_periods; after the boundary tick there, a tick with a zero wait is not a
\* boundary tick and prints nothing, the first tick with a positive wait is the
\* last one, and it is no boundary tick and prints no summary when every wait is
\* shorter than a fee period.
C19_OneMoreTickAfterFinalSummary ==
    [][ /\ (pc = "loop" /\ pc' = "done")
            => this_timestamp > mgmt_fee_period * sim_periods
        /\ (TickStep /\ AfterFinalSummary) =>
            /\ this_timestamp' > this_timestamp => ~LoopCondition'
            /\ (this_timestamp' = this_timestamp \/ WaitsWithinPeriod)
                  => (~new_period' /\ summary' = summary) ]_vars

C19_Witness ==
    /\ pc = "done"
    /\ WaitsWithinPeriod
    /\ ~new_period
    /\ summary.period = sim_periods
    /\ summary.display_time = mgmt_fee_period * sim_periods
    /\ tx_fees = summary.tx_fees + this_tx_fee
    /\ fund_shares_exp > summary.fund_shares_exp

====
